---- MODULE Spec2Model ----
(***************************************************************************)
(* A model of the Judecca interpreter (src/run.py): the single-slot        *)
(* PageCache, the lazily extended JumpTable and Machine.step with its      *)
(* two-sided tape.                                                         *)
(*                                                                         *)
(* The instruction stream is the output of iterated SHA256 over the        *)
(* source code; the model treats it as an arbitrary periodic sequence of   *)
(* nibbles, fixed for a run and chosen in Init.                            *)
(***************************************************************************)
EXTENDS Integers, Sequences, FiniteSets, TLC

VARIABLES
    stream,               \* one period of the nibbles of the pages 0, 1, 2, ...
    nolimit,              \* PageCache.nolimit / Machine.nolimit
    ip,                   \* Machine.ip
    tape_before,          \* Machine.tape_before
    tape_after_rev,       \* Machine.tape_after_rev (head cell is the last element)
    latest_page_num,      \* PageCache.latest_page_num
    latest_instructions,  \* PageCache.latest_instructions
    progress_maxpage,     \* JumpTable.progress_maxpage
    progress_open,        \* JumpTable.progress_open
    mapping,              \* JumpTable.mapping
    status,               \* "running", or how the process ended
    open_hist,            \* history: progress_open after the scan of each index
    last_req,             \* history: argument of the latest get_instructions call
    written,              \* history: the values stored under each key of mapping
    scan_log,             \* history: the pages JumpTable.extend has scanned
    tabA,                 \* a PageCache and JumpTable of their own, called
    tabB,                 \* directly; each holds the fields of the record m
    last                  \* history: the two latest steps of Machine.step
                          \* (ip, head cell and progress_maxpage before the
                          \* step, the instruction,
                          \* the I/O call made, what get_jump_dest returned)

vars == <<stream, nolimit, ip, tape_before, tape_after_rev, latest_page_num,
          latest_instructions, progress_maxpage, progress_open, mapping,
          status, open_hist, last_req, written, scan_log, tabA, tabB, last>>

-----------------------------------------------------------------------------
(* Sizes.  The program's values (64 instructions per page, limits of 2^20)  *)
(* are scaled down.  The instruction at index i is stream[i % PatternLen],   *)
(* and a run is followed up to the page after the one the page limit admits *)
(* last, so that a run without limits can pass the limit.                   *)

PAGE_SIZE == 2
RESTRICTION_MAXPAGE == 1
RESTRICTION_MAXTAPE == 2
PatternLen == 5
QueryPeriod == 3
CELL_MASK == 255

MaxModelPage == RESTRICTION_MAXPAGE + 1

\* Python's None for latest_page_num; page numbers are never negative.
None == -1
\* The value JumpTable.mapping holds for an OPEN whose CLOSE is not scanned yet.
UNRESOLVED == -1
\* The bytes the input may hold.
InputBytes == {255}

\* The stream is drawn from the sequences over one of these sets of nibbles.
Alphabets ==
    { {7, 4, 5}, {7, 9, 4}, {7, 9, 5}, {4, 5, 9},
      {0, 2, 3}, {0, 1, 7}, {3, 7}, {6, 8, 10}, {11, 12}, {13, 14}, {15, 3} }

-----------------------------------------------------------------------------
(* Pages and their decoding.                                                *)

HexDigits == <<"0", "1", "2", "3", "4", "5", "6", "7",
               "8", "9", "A", "B", "C", "D", "E", "F">>

\* The 2 * 32 nibbles of the digest of page page_number, high nibble first.
get_page(page_number) ==
    [k \in 1..PAGE_SIZE |-> stream[(page_number * PAGE_SIZE + (k - 1)) % PatternLen]]

\* page.hex().upper(): one upper-case hex digit per nibble.
as_instructions(page) == [k \in 1..Len(page) |-> HexDigits[page[k] + 1]]

-----------------------------------------------------------------------------
(* The PageCache and JumpTable operate on a record m of their fields:       *)
(*   latest_page_num, latest_instructions, progress_maxpage, progress_open, *)
(*   mapping, open_hist, last_req, written, scan_log, and st, which says    *)
(*   whether the call is still running ("ok"), has left through exit(2)     *)
(*   ("exit2"), has raised AssertionError or KeyError ("assert"), or has    *)
(*   asked for a page the bounded stream does not hold ("cap").             *)

Put(f, k, v) == [x \in (DOMAIN f) \cup {k} |-> IF x = k THEN v ELSE f[x]]

Last(s) == s[Len(s)]
Front(s) == SubSeq(s, 1, Len(s) - 1)

\* self.mapping[k] = v; written keeps, for each key, the values stored under
\* it, oldest first.
Store(m, k, v) ==
    [m EXCEPT !.mapping = Put(@, k, v),
              !.written = Put(@, k, IF k \in DOMAIN @ THEN Append(@[k], v)
                                    ELSE <<v>>)]

PageCache_get_instructions_KeepsFirstPage(m, page_num) ==
    LET m0 == [m EXCEPT !.last_req = page_num]
    IN  IF m0.latest_page_num # page_num
        THEN IF ~nolimit /\ page_num > RESTRICTION_MAXPAGE
             THEN [m0 EXCEPT !.st = "exit2"]
             ELSE IF page_num > MaxModelPage
                  THEN [m0 EXCEPT !.st = "cap"]
                  ELSE [m0 EXCEPT !.latest_page_num = page_num,
                                  !.latest_instructions =
                                      IF m.latest_page_num = None
                                      THEN as_instructions(get_page(page_num))
                                      ELSE @]
        ELSE m0
PageCache_get_instructions_NoLimit(m, page_num) ==
    LET m0 == [m EXCEPT !.last_req = page_num]
    IN  IF m0.latest_page_num # page_num
        THEN IF page_num > MaxModelPage
             THEN [m0 EXCEPT !.st = "cap"]
             ELSE [m0 EXCEPT !.latest_page_num = page_num,
                             !.latest_instructions =
                                 as_instructions(get_page(page_num))]
        ELSE m0
PageCache_get_instructions_LimitOffByOne(m, page_num) ==
    LET m0 == [m EXCEPT !.last_req = page_num]
    IN  IF m0.latest_page_num # page_num
        THEN IF ~nolimit /\ page_num >= RESTRICTION_MAXPAGE
             THEN [m0 EXCEPT !.st = "exit2"]
             ELSE IF page_num > MaxModelPage
                  THEN [m0 EXCEPT !.st = "cap"]
                  ELSE [m0 EXCEPT !.latest_page_num = page_num,
                                  !.latest_instructions =
                                      as_instructions(get_page(page_num))]
        ELSE m0
PageCache_get_instructions(m, page_num) ==
    LET m0 == [m EXCEPT !.last_req = page_num]
    IN  IF m0.latest_page_num # page_num
        THEN IF ~nolimit /\ page_num > RESTRICTION_MAXPAGE
             THEN [m0 EXCEPT !.st = "exit2"]
             ELSE IF page_num > MaxModelPage
                  THEN [m0 EXCEPT !.st = "cap"]
                  ELSE [m0 EXCEPT !.latest_page_num = page_num,
                                  !.latest_instructions =
                                      as_instructions(get_page(page_num))]
        ELSE m0

\* if insn == '9': a PIVOT is taken as "]" inside a loop and as "[" otherwise.
Normalize_AlwaysOpen(insn0, stack) == IF insn0 = "9" THEN "4" ELSE insn0
Normalize(insn0, stack) ==
    IF insn0 = "9"
    THEN (IF stack # <<>> THEN "5" ELSE "4")
    ELSE insn0

\* if insn == '4'
ScanOpen_NoPush(m, i) == Store(m, i, UNRESOLVED)
ScanOpen(m, i) ==
    Store([m EXCEPT !.progress_open = Append(@, i + 1)], i, UNRESOLVED)

\* elif insn == '5' and bool(self.progress_open)
ScanMatchedClose_LandOnClose(m, i) ==
    LET dest == Last(m.progress_open)
        m1 == Store([m EXCEPT !.progress_open = Front(@)], i, dest)
    IN  IF (dest - 1) \notin DOMAIN m1.mapping
           \/ m1.mapping[dest - 1] # UNRESOLVED
        THEN [m1 EXCEPT !.st = "assert"]
        ELSE Store(m1, dest - 1, i)
ScanMatchedClose(m, i) ==
    LET dest == Last(m.progress_open)
        m1 == Store([m EXCEPT !.progress_open = Front(@)], i, dest)
    IN  IF (dest - 1) \notin DOMAIN m1.mapping
           \/ m1.mapping[dest - 1] # UNRESOLVED
        THEN [m1 EXCEPT !.st = "assert"]
        ELSE Store(m1, dest - 1, i + 1)

\* elif insn == '5'
ScanUnmatchedClose_FallThrough(m, i) == Store(m, i, i + 1)
ScanUnmatchedClose_NoEntry(m, i) == m
ScanUnmatchedClose(m, i) ==
    IF m.progress_open # <<>>
    THEN [m EXCEPT !.st = "assert"]
    ELSE Store(m, i, 0)

\* One iteration of the loop of JumpTable.extend, for the instruction insn0
\* at index i = frame + offset.
ScanInsn(m, insn0, i) ==
    LET insn == Normalize(insn0, m.progress_open)
    IN  IF insn = "4" THEN ScanOpen(m, i)
        ELSE IF insn = "5" /\ m.progress_open # <<>> THEN ScanMatchedClose(m, i)
        ELSE IF insn = "5" THEN ScanUnmatchedClose(m, i)
        ELSE m

RECURSIVE ScanPage(_, _, _, _)
ScanPage(m, insn_page, frame, offset) ==
    IF m.st # "ok" \/ offset >= Len(insn_page)
    THEN m
    ELSE LET m1 == ScanInsn(m, insn_page[offset + 1], frame + offset)
             m2 == [m1 EXCEPT !.open_hist = Put(@, frame + offset, m1.progress_open)]
         IN  ScanPage(m2, insn_page, frame, offset + 1)

\* scan_log keeps the numbers of the pages whose instructions the loop of
\* extend went through, oldest first.
JumpTable_extend_FrameZero(m) ==
    LET m1 == [m EXCEPT !.progress_maxpage = @ + 1]
        m2 == PageCache_get_instructions(m1, m1.progress_maxpage)
        frame == 0
    IN  IF m2.st # "ok"
        THEN m2
        ELSE ScanPage([m2 EXCEPT !.scan_log = Append(@, m2.latest_page_num)],
                      m2.latest_instructions, frame, 0)
JumpTable_extend(m) ==
    LET m1 == [m EXCEPT !.progress_maxpage = @ + 1]
        m2 == PageCache_get_instructions(m1, m1.progress_maxpage)
        frame == m1.progress_maxpage * PAGE_SIZE
    IN  IF m2.st # "ok"
        THEN m2
        ELSE ScanPage([m2 EXCEPT !.scan_log = Append(@, m2.latest_page_num)],
                      m2.latest_instructions, frame, 0)

\* while self.progress_maxpage < insn_page_num: self.extend()
RECURSIVE ExtendToPage(_, _)
ExtendToPage_NoLoop(m, insn_page_num) == m
ExtendToPage_OnePageMore(m, insn_page_num) ==
    IF m.st # "ok" \/ m.progress_maxpage > insn_page_num
    THEN m
    ELSE ExtendToPage(JumpTable_extend(m), insn_page_num)
ExtendToPage(m, insn_page_num) ==
    IF m.st # "ok" \/ m.progress_maxpage >= insn_page_num
    THEN m
    ELSE ExtendToPage(JumpTable_extend(m), insn_page_num)

\* while dest == -1: assert bool(self.progress_open); self.extend();
\*                   dest = self.mapping[insn_num]
ExtendToDetermined_NoLoop(m, insn_num) == m
RECURSIVE ExtendToDetermined(_, _)
ExtendToDetermined(m, insn_num) ==
    IF m.st # "ok"
    THEN m
    ELSE IF insn_num \notin DOMAIN m.mapping
    THEN [m EXCEPT !.st = "assert"]
    ELSE IF m.mapping[insn_num] # UNRESOLVED
    THEN m
    ELSE IF m.progress_open = <<>>
    THEN [m EXCEPT !.st = "assert"]
    ELSE ExtendToDetermined(JumpTable_extend(m), insn_num)

\* The if-chain of get_jump_dest once dest = mapping[insn_num] is read;
\* "loop" stands for falling through to the loop that reads until determined.
JumpDecision_UnresolvedFallsThrough(dest, insn_num, is_head_zero) ==
    LET is_determined == dest # UNRESOLVED
        jmp_fwd == dest > insn_num \/ ~is_determined
    IN  IF jmp_fwd /\ ~is_head_zero THEN [kind |-> "ret", val |-> insn_num + 1]
        ELSE IF jmp_fwd /\ is_head_zero /\ is_determined THEN [kind |-> "ret", val |-> dest]
        ELSE IF jmp_fwd /\ is_head_zero /\ ~is_determined THEN [kind |-> "ret", val |-> insn_num + 1]
        ELSE IF ~jmp_fwd /\ ~is_head_zero THEN [kind |-> "ret", val |-> dest]
        ELSE IF ~jmp_fwd /\ is_head_zero THEN [kind |-> "ret", val |-> insn_num + 1]
        ELSE [kind |-> "raise", val |-> dest]
JumpDecision_EqualIsForward(dest, insn_num, is_head_zero) ==
    LET is_determined == dest # UNRESOLVED
        jmp_fwd == dest >= insn_num \/ ~is_determined
    IN  IF jmp_fwd /\ ~is_head_zero THEN [kind |-> "ret", val |-> insn_num + 1]
        ELSE IF jmp_fwd /\ is_head_zero /\ is_determined THEN [kind |-> "ret", val |-> dest]
        ELSE IF jmp_fwd /\ is_head_zero /\ ~is_determined THEN [kind |-> "loop", val |-> dest]
        ELSE IF ~jmp_fwd /\ ~is_head_zero THEN [kind |-> "ret", val |-> dest]
        ELSE IF ~jmp_fwd /\ is_head_zero THEN [kind |-> "ret", val |-> insn_num + 1]
        ELSE [kind |-> "raise", val |-> dest]
JumpDecision(dest, insn_num, is_head_zero) ==
    LET is_determined == dest # UNRESOLVED
        jmp_fwd == dest > insn_num \/ ~is_determined
    IN  IF jmp_fwd /\ ~is_head_zero THEN [kind |-> "ret", val |-> insn_num + 1]
        ELSE IF jmp_fwd /\ is_head_zero /\ is_determined THEN [kind |-> "ret", val |-> dest]
        ELSE IF jmp_fwd /\ is_head_zero /\ ~is_determined THEN [kind |-> "loop", val |-> dest]
        ELSE IF ~jmp_fwd /\ ~is_head_zero THEN [kind |-> "ret", val |-> dest]
        ELSE IF ~jmp_fwd /\ is_head_zero THEN [kind |-> "ret", val |-> insn_num + 1]
        ELSE [kind |-> "raise", val |-> dest]

\* The result is the record m after the call, whether the call returned, the
\* value it returned, whether it came to read mapping[insn_num], and the
\* frontier it read it at.
JumpTable_get_jump_dest(m, insn_num, is_head_zero) ==
    LET m1 == ExtendToPage(m, insn_num \div PAGE_SIZE)
        none == [m |-> m1, returned |-> FALSE, ret |-> 0,
                 consulted |-> FALSE, at_consult |-> 0]
        read == [none EXCEPT !.consulted = TRUE, !.at_consult = m1.progress_maxpage]
    IN  IF m1.st # "ok"
        THEN none
        ELSE IF insn_num \notin DOMAIN m1.mapping
        THEN [read EXCEPT !.m = [m1 EXCEPT !.st = "assert"]]
        ELSE LET d == JumpDecision(m1.mapping[insn_num], insn_num, is_head_zero)
             IN  IF d.kind = "ret"
                 THEN [read EXCEPT !.returned = TRUE, !.ret = d.val]
                 ELSE IF d.kind = "raise"
                 THEN [read EXCEPT !.m = [m1 EXCEPT !.st = "assert"]]
                 ELSE LET m2 == ExtendToDetermined(m1, insn_num)
                      IN  IF m2.st = "ok"
                          THEN [read EXCEPT !.m = m2, !.returned = TRUE,
                                            !.ret = m2.mapping[insn_num]]
                          ELSE [read EXCEPT !.m = m2]

-----------------------------------------------------------------------------
(* The tape and Machine.step.                                               *)

\* The '<' and '>' branch of Machine.step on the two sides of the tape.
\* The result holds both sides and st as above.
TapeMove_NoRefill(insn, before, after_rev) ==
    IF before = <<>>
    THEN [tape_before |-> before, tape_after_rev |-> after_rev, st |-> "assert"]
    ELSE [tape_before |-> Front(before),
          tape_after_rev |-> Append(after_rev, Last(before)), st |-> "ok"]
TapeMove(insn, before, after_rev) ==
    LET tapes == [tape_before |-> before, tape_after_rev |-> after_rev]
        mv_from == IF insn = "2" THEN "tape_before" ELSE "tape_before"
        mv_to == IF insn = "2" THEN "tape_after_rev" ELSE "tape_after_rev"
    IN  IF tapes[mv_from] = <<>>
        THEN [tape_before |-> before, tape_after_rev |-> after_rev, st |-> "assert"]
        ELSE LET t1 == [tapes EXCEPT ![mv_to] = Append(@, Last(tapes[mv_from]))]
                 t2 == [t1 EXCEPT ![mv_from] = Front(@)]
             IN  IF t2[mv_from] = <<>>
                 THEN IF ~nolimit /\ Len(t2[mv_from]) >= RESTRICTION_MAXTAPE
                      THEN [tape_before |-> t2.tape_before,
                            tape_after_rev |-> t2.tape_after_rev, st |-> "exit2"]
                      ELSE LET t3 == [t2 EXCEPT ![mv_from] = Append(@, 0)]
                           IN  [tape_before |-> t3.tape_before,
                                tape_after_rev |-> t3.tape_after_rev, st |-> "ok"]
                 ELSE [tape_before |-> t2.tape_before,
                       tape_after_rev |-> t2.tape_after_rev, st |-> "ok"]

\* self.tape_after_rev[-1] = value
SetHead_CellBelow(after_rev, value) ==
    IF Len(after_rev) >= 2
    THEN [after_rev EXCEPT ![Len(after_rev) - 1] = value]
    ELSE after_rev
SetHead(after_rev, value) == [after_rev EXCEPT ![Len(after_rev)] = value]

\* newval & 0xFF for newval in -1 .. 256
Mask_NoWrap(newval) == newval
Mask(newval) == (newval + CELL_MASK + 1) % (CELL_MASK + 1)

\* What the I/O device may answer: read_byte returns b'' at the end of the
\* input or one byte, write_byte returns nothing; os.read and os.write may
\* fail.  An instruction that does no I/O gets no answer.
ReadResults ==
    {[ok |-> TRUE, bytes |-> <<>>], [ok |-> FALSE, bytes |-> <<>>]}
    \cup {[ok |-> TRUE, bytes |-> <<b>>] : b \in InputBytes}
WriteResults == {[ok |-> TRUE, bytes |-> <<>>], [ok |-> FALSE, bytes |-> <<>>]}
NoIO == {[ok |-> TRUE, bytes |-> <<>>]}

CurrentM ==
    [latest_page_num |-> latest_page_num,
     latest_instructions |-> latest_instructions,
     progress_maxpage |-> progress_maxpage,
     progress_open |-> progress_open,
     mapping |-> mapping,
     open_hist |-> open_hist,
     last_req |-> last_req,
     written |-> written,
     scan_log |-> scan_log,
     st |-> "ok"]

\* self.ip = self.jump_table.get_jump_dest(...); return   for a bracket,
\* self.ip += 1   at the end of step for every other instruction.
AdvanceIp_BracketAlsoIncrements(insn, cur_ip, ret) ==
    IF insn \in {"4", "5", "9"} THEN ret + 1 ELSE cur_ip + 1
AdvanceIp(insn, cur_ip, ret) ==
    IF insn \in {"4", "5", "9"} THEN ret ELSE cur_ip + 1

\* The outcome of one call of Machine.step when the I/O device answers io:
\* the record m, the instruction pointer, the tape, how the call ended, the
\* instruction executed ("" when the fetch did not return), the call made on
\* the I/O device with the bytes it read, and what get_jump_dest returned.
StepOutcome(io) ==
    LET page_num == ip \div PAGE_SIZE
        m1 == PageCache_get_instructions(CurrentM, page_num)
        insn == m1.latest_instructions[(ip % PAGE_SIZE) + 1]
        same == [m |-> m1, ip |-> ip, tape_before |-> tape_before,
                 tape_after_rev |-> tape_after_rev, st |-> m1.st,
                 insn |-> "", returned |-> FALSE, ret |-> 0,
                 consulted |-> FALSE, at_consult |-> 0,
                 io_call |-> "none", bytes |-> <<>>]
    IN  IF m1.st # "ok" THEN same
        ELSE IF tape_after_rev = <<>> THEN [same EXCEPT !.st = "assert", !.insn = insn]
        ELSE IF insn \in {"4", "5", "9"}
        THEN LET is_head_zero == Last(tape_after_rev) = 0
                 r == JumpTable_get_jump_dest(m1, ip, is_head_zero)
             IN  [same EXCEPT !.m = r.m, !.st = r.m.st, !.insn = insn,
                              !.returned = r.returned, !.ret = r.ret,
                              !.consulted = r.consulted,
                              !.at_consult = r.at_consult,
                              !.ip = IF r.returned THEN AdvanceIp(insn, ip, r.ret)
                                     ELSE ip]
        ELSE IF insn \in {"A", "B", "C", "D", "E", "F"}
        THEN [same EXCEPT !.insn = insn, !.ip = AdvanceIp(insn, ip, 0)]
        ELSE IF insn \in {"0", "1"}
        THEN LET newval == Last(tape_after_rev) + 2 * (IF insn = "0" THEN 1 ELSE 0) - 1
             IN  [same EXCEPT !.insn = insn, !.ip = AdvanceIp(insn, ip, 0),
                              !.tape_after_rev = SetHead(tape_after_rev, Mask(newval))]
        ELSE IF insn \in {"2", "3"}
        THEN LET t == TapeMove(insn, tape_before, tape_after_rev)
             IN  [same EXCEPT !.insn = insn, !.st = t.st,
                              !.tape_before = t.tape_before,
                              !.tape_after_rev = t.tape_after_rev,
                              !.ip = IF t.st = "ok" THEN AdvanceIp(insn, ip, 0)
                                     ELSE ip]
        ELSE IF insn = "6"
        THEN IF io.ok
             THEN [same EXCEPT !.insn = insn, !.io_call = "write",
                               !.ip = AdvanceIp(insn, ip, 0)]
             ELSE [same EXCEPT !.insn = insn, !.io_call = "write", !.st = "io"]
        ELSE IF insn = "7"
        THEN IF ~io.ok
             THEN [same EXCEPT !.insn = insn, !.io_call = "read", !.st = "io"]
             ELSE IF Len(io.bytes) = 1
             THEN [same EXCEPT !.insn = insn, !.io_call = "read", !.bytes = io.bytes,
                               !.ip = AdvanceIp(insn, ip, 0),
                               !.tape_after_rev = SetHead(tape_after_rev, io.bytes[1])]
             ELSE IF Len(io.bytes) = 0
             THEN [same EXCEPT !.insn = insn, !.io_call = "read", !.bytes = io.bytes,
                               !.ip = AdvanceIp(insn, ip, 0),
                               !.tape_after_rev = SetHead(tape_after_rev, 0)]
             ELSE [same EXCEPT !.insn = insn, !.io_call = "read", !.st = "assert"]
        ELSE IF insn = "8"
        THEN [same EXCEPT !.insn = insn, !.ip = AdvanceIp(insn, ip, 0)]
        ELSE [same EXCEPT !.insn = insn, !.st = "assert"]

\* The instruction at index i of the stream.
InsnAt(i) == HexDigits[stream[i % PatternLen] + 1]

IOResults ==
    IF InsnAt(ip) = "7" THEN ReadResults
    ELSE IF InsnAt(ip) = "6" THEN WriteResults
    ELSE NoIO

NoStep ==
    [valid |-> FALSE, ip |-> 0, insn |-> "", head |-> 0, frontier |-> 0,
     returned |-> FALSE,
     ret |-> 0, consulted |-> FALSE, at_consult |-> 0, io_call |-> "none",
     bytes |-> <<>>]

\* PageCache.__init__ and JumpTable.__init__
NewTable ==
    [latest_page_num |-> None,
     latest_instructions |-> <<"INSTRUCTIONS_GO_HERE">>,
     progress_maxpage |-> -1,
     progress_open |-> <<>>,
     mapping |-> <<>>,
     open_hist |-> <<>>,
     last_req |-> None,
     written |-> <<>>,
     scan_log |-> <<>>,
     st |-> "ok"]

Init ==
    /\ stream \in UNION {[0..(PatternLen - 1) -> A] : A \in Alphabets}
    /\ nolimit \in BOOLEAN
    /\ ip = 0
    /\ tape_before = <<0>>
    /\ tape_after_rev = <<0>>
    /\ latest_page_num = None
    /\ latest_instructions = <<"INSTRUCTIONS_GO_HERE">>
    /\ progress_maxpage = -1
    /\ progress_open = <<>>
    /\ mapping = <<>>
    /\ status = "running"
    /\ open_hist = <<>>
    /\ last_req = None
    /\ written = <<>>
    /\ scan_log = <<>>
    /\ tabA = NewTable
    /\ tabB = NewTable
    /\ last = [cur |-> NoStep, prev |-> NoStep]

\* One call of Machine.step from the loop of run_machine.
step ==
    /\ status = "running"
    /\ \E io \in IOResults :
         \E r \in {StepOutcome(io)} :
             /\ r.st # "cap"
             /\ ip' = r.ip
             /\ tape_before' = r.tape_before
             /\ tape_after_rev' = r.tape_after_rev
             /\ latest_page_num' = r.m.latest_page_num
             /\ latest_instructions' = r.m.latest_instructions
             /\ progress_maxpage' = r.m.progress_maxpage
             /\ progress_open' = r.m.progress_open
             /\ mapping' = r.m.mapping
             /\ open_hist' = r.m.open_hist
             /\ last_req' = r.m.last_req
             /\ written' = r.m.written
             /\ scan_log' = r.m.scan_log
             /\ status' = IF r.st = "ok" THEN "running" ELSE r.st
             /\ last' = [cur |-> [valid |-> TRUE, ip |-> ip, insn |-> r.insn,
                                  head |-> Last(tape_after_rev),
                                  frontier |-> progress_maxpage,
                                  returned |-> r.returned, ret |-> r.ret,
                                  consulted |-> r.consulted,
                                  at_consult |-> r.at_consult,
                                  io_call |-> r.io_call, bytes |-> r.bytes],
                         prev |-> last.cur]
             /\ UNCHANGED <<stream, nolimit, tabA, tabB>>

Next == step

Spec == Init /\ [][Next]_vars

-----------------------------------------------------------------------------
(* Two jump tables over one stream, each with a page cache of its own,      *)
(* called directly: get_jump_dest for a bracket index and either state of   *)
(* the head cell, and extend.  An exit or an exception in either call ends  *)
(* the process.                                                             *)

\* The last index of the pages the model follows.
WindowEnd == (MaxModelPage + 1) * PAGE_SIZE - 1

BothAlive == tabA.st = "ok" /\ tabB.st = "ok"

\* The table after get_jump_dest(i, z) for some bracket index i and some z.
AfterQuery(tab) ==
    {JumpTable_get_jump_dest(tab, i, z).m :
        i \in {k \in 0..WindowEnd : InsnAt(k) \in {"4", "5", "9"}}, z \in BOOLEAN}

QueryA ==
    /\ BothAlive
    /\ \E m \in AfterQuery(tabA) : m.st # "cap" /\ tabA' = m
    /\ UNCHANGED <<stream, nolimit, ip, tape_before, tape_after_rev,
                   latest_page_num, latest_instructions, progress_maxpage,
                   progress_open, mapping, status, open_hist, last_req,
                   written, scan_log, tabB, last>>

QueryB ==
    /\ BothAlive
    /\ \E m \in AfterQuery(tabB) : m.st # "cap" /\ tabB' = m
    /\ UNCHANGED <<stream, nolimit, ip, tape_before, tape_after_rev,
                   latest_page_num, latest_instructions, progress_maxpage,
                   progress_open, mapping, status, open_hist, last_req,
                   written, scan_log, tabA, last>>

ExtendA ==
    /\ BothAlive
    /\ \E m \in {JumpTable_extend(tabA)} : m.st # "cap" /\ tabA' = m
    /\ UNCHANGED <<stream, nolimit, ip, tape_before, tape_after_rev,
                   latest_page_num, latest_instructions, progress_maxpage,
                   progress_open, mapping, status, open_hist, last_req,
                   written, scan_log, tabB, last>>

ExtendB ==
    /\ BothAlive
    /\ \E m \in {JumpTable_extend(tabB)} : m.st # "cap" /\ tabB' = m
    /\ UNCHANGED <<stream, nolimit, ip, tape_before, tape_after_rev,
                   latest_page_num, latest_instructions, progress_maxpage,
                   progress_open, mapping, status, open_hist, last_req,
                   written, scan_log, tabA, last>>

\* The streams that repeat their first QueryPeriod nibbles within a period,
\* made of brackets alone or of brackets and one instruction that is none.
InitQuery ==
    /\ Init
    /\ \E A \in {{4, 5, 9}, {7, 4, 5}, {7, 9, 5}} : stream \in [0..(PatternLen - 1) -> A]
    /\ \A k \in 0..(PatternLen - 1) : stream[k] = stream[k % QueryPeriod]

NextQuery == QueryA \/ QueryB \/ ExtendA \/ ExtendB

SpecQuery == InitQuery /\ [][NextQuery]_vars

-----------------------------------------------------------------------------
(* A reference bracket matcher, defined on the stream alone.                *)

Scanned == DOMAIN open_hist

\* progress_open as it was when the scan reached index i.
StackBefore(i) == IF i = 0 THEN <<>> ELSE open_hist[i - 1]

\* The number of brackets open after an instruction c met with d open.
DepthAfter(c, d) ==
    IF c = "4" \/ (c = "9" /\ d = 0) THEN d + 1
    ELSE IF c \in {"5", "9"} /\ d > 0 THEN d - 1
    ELSE d

\* The number of brackets open before index i.
RECURSIVE RefDepth(_)
RefDepth(i) == IF i = 0 THEN 0 ELSE DepthAfter(InsnAt(i - 1), RefDepth(i - 1))

RefOpens(i) == InsnAt(i) = "4" \/ (InsnAt(i) = "9" /\ RefDepth(i) = 0)
RefCloses(i) == InsnAt(i) \in {"5", "9"} /\ RefDepth(i) > 0
RefUnmatched(i) == InsnAt(i) = "5" /\ RefDepth(i) = 0

\* The nearest OPEN before c that no CLOSE before c has matched.
RefPartner(c) ==
    CHOOSE o \in 0..(c - 1) :
        /\ RefOpens(o)
        /\ RefDepth(o) = RefDepth(c) - 1
        /\ \A k \in (o + 1)..(c - 1) : ~(RefOpens(k) /\ RefDepth(k) = RefDepth(c) - 1)

\* The latest step executed a bracket instruction and get_jump_dest returned.
JumpReturned ==
    /\ last.cur.valid
    /\ last.cur.insn \in {"4", "5", "9"}
    /\ last.cur.returned

-----------------------------------------------------------------------------
\* C1: when Machine.step executes the bracket at index i with dest =
\* mapping[i], a forward (dest > i, or unresolved) jump continues at i + 1 on
\* a non-zero head cell and at the resolved dest on a zero head cell; a
\* backward one (dest <= i, which includes dest = i for the CLOSE of "[]")
\* continues at dest on a non-zero head cell and at i + 1 on a zero one.
C1_LoopSemantics ==
    JumpReturned =>
        LET i == last.cur.ip
            z == last.cur.head = 0
        IN  /\ i \in DOMAIN mapping
            /\ LET dest == mapping[i]
               IN  IF dest > i \/ dest = UNRESOLVED
                   THEN IF z THEN dest # UNRESOLVED /\ ip = dest ELSE ip = i + 1
                   ELSE IF z THEN ip = i + 1 ELSE ip = dest

\* The CLOSE of an empty loop was executed on a non-zero head cell and jumped
\* to itself.
C1_Witness ==
    /\ JumpReturned
    /\ last.cur.head # 0
    /\ last.cur.ip \in DOMAIN mapping
    /\ mapping[last.cur.ip] = last.cur.ip
    /\ ip = last.cur.ip

\* C2: every scanned CLOSE (or PIVOT taken as CLOSE) c that met a non-empty
\* stack is mapped to the index after its partner o, the nearest unmatched
\* OPEN before it, and o is mapped to c + 1, as the reference matcher says.
C2_MatchesReference ==
    \A c \in Scanned :
        /\ RefCloses(c) <=> (InsnAt(c) \in {"5", "9"} /\ StackBefore(c) # <<>>)
        /\ RefCloses(c) =>
              /\ c \in DOMAIN mapping
              /\ RefPartner(c) \in DOMAIN mapping
              /\ mapping[c] = RefPartner(c) + 1
              /\ mapping[RefPartner(c)] = c + 1

\* A pair that spans a page boundary and encloses another pair is scanned.
C2_Witness ==
    \E c \in Scanned :
        /\ RefCloses(c)
        /\ RefDepth(c) >= 2
        /\ RefPartner(c) \div PAGE_SIZE < c \div PAGE_SIZE
        /\ \E c2 \in Scanned :
              /\ RefCloses(c2)
              /\ RefDepth(c2) = 1
              /\ RefPartner(c2) < RefPartner(c)
              /\ c < c2
              /\ mapping[RefPartner(c2)] = c2 + 1

\* C3: a value get_jump_dest returns to Machine.step is an instruction index
\* (>= 0), never the sentinel -1.
C3_NeverUnresolved ==
    JumpReturned => (ip # UNRESOLVED /\ ip >= 0)

\* An OPEN whose CLOSE lies on a later page was executed on a zero head cell:
\* the table was extended until the OPEN was resolved.
C3_Witness ==
    /\ JumpReturned
    /\ last.cur.insn = "4"
    /\ last.cur.head = 0
    /\ ip > last.cur.ip + 1
    /\ (ip - 1) \div PAGE_SIZE > last.cur.ip \div PAGE_SIZE
    /\ progress_maxpage = (ip - 1) \div PAGE_SIZE

\* C4: a "]" scanned on an empty stack is mapped to 0 and leaves the stack
\* empty; when it is executed the instruction pointer becomes 0 on a non-zero
\* head cell and i + 1 on a zero one.
C4_UnmatchedClose ==
    /\ \A i \in Scanned :
          (InsnAt(i) = "5" /\ StackBefore(i) = <<>>) =>
              /\ i \in DOMAIN mapping
              /\ mapping[i] = 0
              /\ open_hist[i] = <<>>
    /\ (JumpReturned /\ RefUnmatched(last.cur.ip)) =>
          ip = (IF last.cur.head # 0 THEN 0 ELSE last.cur.ip + 1)

\* An unmatched "]" beyond index 0 was executed on a non-zero head cell.
C4_Witness ==
    /\ JumpReturned
    /\ RefUnmatched(last.cur.ip)
    /\ last.cur.ip > 0
    /\ last.cur.head # 0
    /\ ip = 0
    /\ mapping[last.cur.ip] = 0

\* No bracket instruction lies strictly between i and j.
NoBracketBetween(i, j) ==
    \A k \in (i + 1)..(j - 1) : InsnAt(k) \notin {"4", "5", "9"}

\* C5: a PIVOT scanned on an empty stack has the effect of an OPEN (i + 1 is
\* pushed, mapping[i] is unresolved until its CLOSE is scanned); a PIVOT
\* scanned on a non-empty stack has the effect of a CLOSE (the top d is
\* popped, mapping[i] = d, mapping[d - 1] = i + 1); two PIVOTs with no bracket
\* between them, the first on an empty stack, form a pair and leave the stack
\* empty.
C5_PivotNormalization ==
    /\ \A i \in Scanned :
          InsnAt(i) = "9" =>
              LET before == StackBefore(i)
              IN  /\ i \in DOMAIN mapping
                  /\ IF before = <<>>
                     THEN /\ open_hist[i] = Append(before, i + 1)
                          /\ mapping[i] = UNRESOLVED \/ mapping[i] > i + 1
                          /\ (mapping[i] = UNRESOLVED) <=>
                                (\E k \in 1..Len(progress_open) : progress_open[k] = i + 1)
                     ELSE /\ open_hist[i] = Front(before)
                          /\ mapping[i] = Last(before)
                          /\ mapping[Last(before) - 1] = i + 1
    /\ \A i, j \in Scanned :
          (/\ i < j
           /\ InsnAt(i) = "9"
           /\ InsnAt(j) = "9"
           /\ StackBefore(i) = <<>>
           /\ NoBracketBetween(i, j)) =>
              /\ mapping[i] = j + 1
              /\ mapping[j] = i + 1
              /\ open_hist[j] = <<>>

\* Two PIVOTs on different pages with a non-bracket between them are scanned
\* as one pair.
C5_Witness ==
    \E i, j \in Scanned :
        /\ i + 1 < j
        /\ i \div PAGE_SIZE < j \div PAGE_SIZE
        /\ InsnAt(i) = "9"
        /\ InsnAt(j) = "9"
        /\ StackBefore(i) = <<>>
        /\ NoBracketBetween(i, j)
        /\ mapping[i] = j + 1
        /\ open_hist[j] = <<>>

\* The two latest steps were the moves a then b, and both returned.
MovedThenMoved(a, b) ==
    /\ status = "running"
    /\ last.prev.valid
    /\ last.prev.insn = a
    /\ last.cur.valid
    /\ last.cur.insn = b

\* C6: LEFT and RIGHT move the head in opposite directions: after LEFT then
\* RIGHT, or RIGHT then LEFT, the head cell holds the value it held before
\* the two moves.
C6_LeftRightInverse ==
    (MovedThenMoved("2", "3") \/ MovedThenMoved("3", "2")) =>
        Last(tape_after_rev) = last.prev.head

\* C7: both sides of the tape are non-empty in every state.
C7_TapeNonEmpty ==
    /\ Len(tape_before) >= 1
    /\ Len(tape_after_rev) >= 1

\* Two moves at the end of the tape have been executed.
C7_Witness ==
    /\ MovedThenMoved("2", "3")
    /\ Len(tape_after_rev) >= 3
    /\ Len(tape_before) >= 1

\* C8: with limits enabled neither side of the tape grows beyond
\* RESTRICTION_MAXTAPE cells; the move that would grow it further ends the run
\* with exit status 2.
C8_TapeLimit ==
    ~nolimit =>
        /\ Len(tape_before) <= RESTRICTION_MAXTAPE
        /\ Len(tape_after_rev) <= RESTRICTION_MAXTAPE

\* The decoding of page n of the stream.
PageOf(n) == [k \in 1..PAGE_SIZE |-> InsnAt(n * PAGE_SIZE + (k - 1))]

\* C9: with limits enabled a request for a page beyond RESTRICTION_MAXPAGE
\* ends the run with exit status 2 and leaves the cache as it was, and a
\* request for any page up to it is served; with nolimit every request is
\* served.  The run ends with status 2 for no other reason.
C9_PageLimit ==
    /\ status = "exit2" =>
          /\ ~nolimit
          /\ last_req > RESTRICTION_MAXPAGE
          /\ latest_page_num # last_req
    /\ ~nolimit =>
          /\ latest_page_num <= RESTRICTION_MAXPAGE
          /\ (last_req > RESTRICTION_MAXPAGE => status = "exit2")
    /\ (last_req # None /\ (nolimit \/ last_req <= RESTRICTION_MAXPAGE)) =>
          /\ status # "exit2"
          /\ latest_page_num = last_req
          /\ latest_instructions = PageOf(last_req)

\* JumpTable.extend asked for the page after the limit while the instruction
\* pointer was on a page within the limit: the run ended, the page is not
\* cached.
C9_Witness ==
    /\ ~nolimit
    /\ status = "exit2"
    /\ ip \div PAGE_SIZE <= RESTRICTION_MAXPAGE
    /\ progress_maxpage = RESTRICTION_MAXPAGE + 1
    /\ last_req = RESTRICTION_MAXPAGE + 1
    /\ latest_page_num = RESTRICTION_MAXPAGE

\* With nolimit a page beyond the limit is served to Machine.step.
C9_WitnessNolimit ==
    /\ nolimit
    /\ status = "running"
    /\ last.cur.valid
    /\ last.cur.ip \div PAGE_SIZE > RESTRICTION_MAXPAGE
    /\ latest_page_num > RESTRICTION_MAXPAGE

\* Machine.step asked for the page after the limit.
C9_WitnessStep ==
    /\ ~nolimit
    /\ status = "exit2"
    /\ ip \div PAGE_SIZE = RESTRICTION_MAXPAGE + 1
    /\ progress_maxpage <= RESTRICTION_MAXPAGE

\* C10: no run fails an assertion of get_jump_dest, extend or step, reaches
\* the illegal-instruction branch or looks up a missing mapping entry; a run
\* ends only with exit status 2 or with a failure of the I/O device.
C10_NoInternalInconsistency ==
    /\ status \in {"running", "exit2", "io"}
    /\ (last.cur.valid /\ last.cur.insn \in {"4", "5", "9"} /\ status = "running")
          => last.cur.returned

\* A run that scanned an unmatched "]" and a matched pair, and executed a
\* bracket instruction, has ended with exit status 2.
C10_Witness ==
    /\ status = "exit2"
    /\ last.prev.valid
    /\ last.prev.insn \in {"4", "5", "9"}
    /\ \E i \in DOMAIN mapping : RefUnmatched(i) /\ i > 0
    /\ \E c \in DOMAIN mapping : RefCloses(c)

\* tape_after_rev without its last element, the head cell.
BelowHead(after_rev) == SubSeq(after_rev, 1, Len(after_rev) - 1)

\* The step just taken executed instruction insn and returned.
Executed(insn) ==
    /\ status' = "running"
    /\ last'.cur.valid
    /\ last'.cur.insn = insn

CellsAreBytes ==
    /\ \A k \in 1..Len(tape_before) : tape_before[k] \in 0..255
    /\ \A k \in 1..Len(tape_after_rev) : tape_after_rev[k] \in 0..255

\* The step just taken changed the head cell from v to w and no other cell.
HeadOnly(v, w) ==
    /\ tape_before' = tape_before
    /\ Len(tape_after_rev') = Len(tape_after_rev)
    /\ BelowHead(tape_after_rev') = BelowHead(tape_after_rev)
    /\ Last(tape_after_rev) = v
    /\ Last(tape_after_rev') = w

\* C12: INC and DEC change the head cell alone, INC from v to v + 1 with 255
\* becoming 0 and DEC from v to v - 1 with 0 becoming 255; every cell of the
\* tape stays within 0..255.
C12_IncDecWrap ==
    /\ []CellsAreBytes
    /\ [][/\ Executed("0") =>
                \E v \in 0..255 : HeadOnly(v, IF v = 255 THEN 0 ELSE v + 1)
          /\ Executed("1") =>
                \E v \in 0..255 : HeadOnly(v, IF v = 0 THEN 255 ELSE v - 1)]_vars

\* INC was executed on a head cell holding 255, which DEC had made of 0.
C12_Witness ==
    /\ status = "running"
    /\ last.prev.valid
    /\ last.prev.insn = "1"
    /\ last.prev.head = 0
    /\ last.cur.valid
    /\ last.cur.insn = "0"
    /\ last.cur.head = 255
    /\ Last(tape_after_rev) = 0

\* The values stored under key k of mapping are one concrete destination, or
\* UNRESOLVED alone, or UNRESOLVED and then one concrete destination beyond k.
FilledOnce(k) ==
    LET w == written[k]
    IN  /\ Len(w) \in {1, 2}
        /\ Len(w) = 1 => w[1] >= 0 \/ w[1] = UNRESOLVED
        /\ Len(w) = 2 => w[1] = UNRESOLVED /\ w[2] > k
        /\ w[1] = UNRESOLVED => InsnAt(k) \in {"4", "9"}
        /\ mapping[k] = Last(w)

\* C13: no entry of mapping is ever removed, an entry holding a concrete
\* destination never changes, and the only value ever stored over another is
\* the concrete destination of an OPEN stored over its UNRESOLVED, once.
C13_FillOnce ==
    /\ [](DOMAIN written = DOMAIN mapping /\ \A k \in DOMAIN mapping : FilledOnce(k))
    /\ [][/\ DOMAIN mapping \subseteq DOMAIN mapping'
          /\ \A k \in DOMAIN mapping :
                mapping[k] # UNRESOLVED => mapping'[k] = mapping[k]]_vars

\* An OPEN was stored as UNRESOLVED by the scan of one page and got its
\* destination by the scan of a later page, next to an OPEN that is closed
\* on its own page and a CLOSE stored once.
C13_Witness ==
    /\ \E k \in DOMAIN mapping :
          /\ Len(written[k]) = 2
          /\ k \div PAGE_SIZE < (written[k][2] - 1) \div PAGE_SIZE
    /\ \E k \in DOMAIN mapping : InsnAt(k) = "5" /\ written[k] = <<mapping[k]>>
    /\ status = "running"

\* The bracket at index c closes the OPEN at index o.
ClosedBy(o, c) ==
    /\ c > o
    /\ RefDepth(c + 1) = RefDepth(o)
    /\ \A k \in (o + 1)..(c - 1) : RefDepth(k + 1) > RefDepth(o)

\* The OPEN at index o has its CLOSE on one of the pages 0..p.
ClosedWithin(o, p) == \E c \in (o + 1)..((p + 1) * PAGE_SIZE - 1) : ClosedBy(o, c)

\* The next call of Machine.step asks for a page beyond the pages followed
\* here, which leaves step disabled.
BeyondWindow ==
    /\ status = "running"
    /\ \A io \in IOResults : StepOutcome(io).st = "cap"

\* C14: a call of get_jump_dest by Machine.step ends: it returns an index,
\* or, under the limits, it ends the run with exit(2) for an OPEN on a zero
\* head cell whose CLOSE no admitted page holds.  Under the limits the
\* frontier never passes the page after the last admitted one and no step
\* is ever left waiting; without limits a step is left waiting only for a
\* page beyond the pages followed here.
C14_JumpTerminates ==
    /\ (last.cur.valid /\ last.cur.insn \in {"4", "5", "9"}) =>
          \/ /\ status = "running"
             /\ last.cur.returned
             /\ last.cur.ret >= 0
             /\ ip = last.cur.ret
          \/ /\ status = "exit2"
             /\ ~nolimit
             /\ ~last.cur.returned
             /\ RefOpens(last.cur.ip)
             /\ last.cur.head = 0
             /\ last_req = RESTRICTION_MAXPAGE + 1
             /\ ~ClosedWithin(last.cur.ip, RESTRICTION_MAXPAGE)
    /\ ~nolimit =>
          /\ progress_maxpage <= RESTRICTION_MAXPAGE + 1
          /\ ~BeyondWindow
    /\ (nolimit /\ BeyondWindow) =>
          \/ ip \div PAGE_SIZE > MaxModelPage
          \/ /\ RefOpens(ip)
             /\ Last(tape_after_rev) = 0
             /\ ~ClosedWithin(ip, MaxModelPage)

\* Under the limits get_jump_dest extended the table up to the CLOSE of one
\* OPEN and returned, and for the next OPEN it ran into the page limit.
C14_Witness ==
    /\ status = "exit2"
    /\ ~nolimit
    /\ last.cur.valid /\ last.cur.insn \in {"4", "9"}
    /\ last.prev.valid /\ last.prev.insn \in {"4", "9"}
    /\ last.prev.returned
    /\ last.prev.ret > last.prev.ip + 1
    /\ progress_maxpage = RESTRICTION_MAXPAGE + 1

\* What get_jump_dest(ip, head cell == 0) returns in the current state, once
\* step has fetched the instruction at ip.
JumpDestNow ==
    JumpTable_get_jump_dest(PageCache_get_instructions(CurrentM, ip \div PAGE_SIZE),
                            ip, Last(tape_after_rev) = 0)

\* C15: a step on OPEN, CLOSE or PIVOT sets ip to the value get_jump_dest
\* returned for (ip, head cell = 0), without adding 1, and changes neither
\* the tape nor the I/O device; a step on any other instruction that returns
\* adds exactly 1 to ip.
C15_IpAdvance ==
    [][/\ (last'.cur.valid /\ last'.cur.insn \in {"4", "5", "9"}) =>
             /\ tape_before' = tape_before
             /\ tape_after_rev' = tape_after_rev
             /\ last'.cur.io_call = "none"
             /\ last'.cur.returned = JumpDestNow.returned
             /\ last'.cur.returned => ip' = JumpDestNow.ret
       /\ (Executed(last'.cur.insn) /\ last'.cur.insn \notin {"4", "5", "9"}) =>
             ip' = ip + 1]_vars

\* A CLOSE on a non-zero head cell set ip back to the instruction after its
\* OPEN, and the step before it, on another instruction, moved ip on by 1.
C15_Witness ==
    /\ status = "running"
    /\ last.cur.valid /\ last.cur.insn \in {"5", "9"}
    /\ last.cur.returned
    /\ last.cur.head # 0
    /\ ip = last.cur.ret
    /\ ip < last.cur.ip
    /\ last.prev.valid /\ last.prev.insn \notin {"4", "5", "9"}
    /\ last.cur.ip = last.prev.ip + 1

\* C16: whenever the cache holds a page number it holds the instructions of
\* that page; a call get_instructions(n) that returns leaves page n in the
\* cache, whether Machine.step or JumpTable.extend made it, and the
\* instruction step executes is the one at index ip of the stream.
C16_CacheTransparent ==
    /\ latest_page_num # None => latest_instructions = PageOf(latest_page_num)
    /\ (status = "running" /\ last_req # None) =>
          /\ latest_page_num = last_req
          /\ latest_instructions = PageOf(last_req)
    /\ (last.cur.valid /\ last.cur.insn # "") => last.cur.insn = InsnAt(last.cur.ip)

\* extend had left a later page in the cache, and step, back on an earlier
\* page after a jump, loaded that page again.
C16_Witness ==
    /\ status = "running"
    /\ latest_page_num # None
    /\ latest_page_num < progress_maxpage
    /\ last.cur.valid
    /\ last.cur.ip \div PAGE_SIZE = latest_page_num
    /\ last.prev.valid /\ last.prev.insn \in {"4", "5", "9"}
    /\ last.prev.ip \div PAGE_SIZE > latest_page_num

\* s is the beginning of t.
IsPrefix(s, t) == Len(s) <= Len(t) /\ SubSeq(t, 1, Len(s)) = s

\* C17: progress_maxpage starts at -1 and never decreases; extend scans the
\* pages 0, 1, 2, ... in this order, each once, one page for each 1 added to
\* progress_maxpage (the last 1 excepted when the page limit ends the run
\* before the scan); get_jump_dest(i, _) reads mapping[i] with
\* progress_maxpage at or beyond the page of i.
C17_Frontier ==
    /\ progress_maxpage = -1
    /\ scan_log = <<>>
    /\ [][/\ progress_maxpage' >= progress_maxpage
          /\ IsPrefix(scan_log, scan_log')
          /\ Len(scan_log') - Len(scan_log) \in
                {progress_maxpage' - progress_maxpage,
                 progress_maxpage' - progress_maxpage - 1}]_vars
    /\ [](/\ \A k \in 1..Len(scan_log) : scan_log[k] = k - 1
          /\ status = "running" => Len(scan_log) = progress_maxpage + 1
          /\ status # "running" => Len(scan_log) \in {progress_maxpage, progress_maxpage + 1}
          /\ (last.cur.valid /\ last.cur.consulted) =>
                last.cur.at_consult >= last.cur.ip \div PAGE_SIZE)

\* The pages 0, 1, 2 have been scanned, and after an earlier call a call of
\* get_jump_dest read mapping[i] for an i on a page behind the frontier.
C17_Witness ==
    /\ status = "running"
    /\ Len(scan_log) >= 3
    /\ last.cur.valid /\ last.cur.consulted
    /\ last.cur.at_consult > last.cur.ip \div PAGE_SIZE
    /\ last.prev.valid /\ last.prev.consulted

\* The elements of the sequence s.
Range(s) == {s[k] : k \in 1..Len(s)}

\* The invariant of C18 for the table m.
StackAndMapping(m) ==
    /\ {k \in DOMAIN m.mapping : m.mapping[k] = UNRESOLVED}
          = {d - 1 : d \in Range(m.progress_open)}
    /\ \A k \in 1..(Len(m.progress_open) - 1) :
          m.progress_open[k] < m.progress_open[k + 1]
    /\ DOMAIN m.mapping
          = {k \in 0..((m.progress_maxpage + 1) * PAGE_SIZE - 1) :
                InsnAt(k) \in {"4", "5", "9"}}

\* C18: between any two calls of extend, whoever makes them, the keys of
\* mapping holding UNRESOLVED are the d - 1 for the d on progress_open,
\* progress_open is strictly increasing from bottom to top, and the keys of
\* mapping are the indices of the OPEN, CLOSE and PIVOT instructions on the
\* pages 0..progress_maxpage.
C18_StackAndMapping ==
    \A m \in {tabA, tabB} : m.st = "ok" => StackAndMapping(m)

\* Two brackets wait open on the stack while an earlier loop is closed, and
\* the scanned pages hold an instruction that is no bracket.
C18_Witness ==
    /\ tabA.st = "ok"
    /\ Len(tabA.progress_open) >= 2
    /\ \E k \in DOMAIN tabA.mapping : tabA.mapping[k] > k
    /\ \E k \in 0..((tabA.progress_maxpage + 1) * PAGE_SIZE - 1) :
          k \notin DOMAIN tabA.mapping
    /\ tabA.progress_maxpage >= 1

\* The value the stream gives mapping[k] for a bracket at index k whose
\* partner lies on the pages followed: the index after the CLOSE for an OPEN,
\* the index after the OPEN for a CLOSE, 0 for a CLOSE without an OPEN.
RefDest(k) ==
    IF RefOpens(k) THEN 1 + CHOOSE c \in (k + 1)..WindowEnd : ClosedBy(k, c)
    ELSE IF RefCloses(k) THEN RefPartner(k) + 1
    ELSE 0

\* The two tables agree with each other and with the stream.
TablesAgree ==
    /\ \A k \in DOMAIN tabA.mapping :
          tabA.mapping[k] # UNRESOLVED => tabA.mapping[k] = RefDest(k)
    /\ \A k \in DOMAIN tabB.mapping :
          tabB.mapping[k] # UNRESOLVED => tabB.mapping[k] = RefDest(k)
    /\ \A k \in DOMAIN tabA.mapping \cap DOMAIN tabB.mapping :
          (tabA.mapping[k] # UNRESOLVED /\ tabB.mapping[k] # UNRESOLVED)
             => tabA.mapping[k] = tabB.mapping[k]

\* get_jump_dest(i, z) returns the same value on both tables.
AnswersAgree ==
    \A i \in {k \in 0..WindowEnd : InsnAt(k) \in {"4", "5", "9"}}, z \in BOOLEAN :
        \E a \in {JumpTable_get_jump_dest(tabA, i, z)} :
        \E b \in {JumpTable_get_jump_dest(tabB, i, z)} :
            (a.returned /\ b.returned) => a.ret = b.ret

\* C19: whatever calls of get_jump_dest and extend two tables over one
\* stream have seen, every entry resolved in a table holds the value the
\* stream alone fixes, so the tables agree on the entries resolved in both,
\* and get_jump_dest(i, z) returns the same value on both.
C19_Deterministic == BothAlive => TablesAgree /\ AnswersAgree

\* One table has resolved an OPEN that the other, some pages behind, holds as
\* UNRESOLVED next to a resolved entry; asked about it on a zero head cell the other has to scan on.
C19_Witness ==
    /\ BothAlive
    /\ tabA.progress_maxpage > tabB.progress_maxpage
    /\ \E k \in DOMAIN tabB.mapping :
          /\ tabB.mapping[k] = UNRESOLVED
          /\ tabA.mapping[k] > k + 1
          /\ JumpTable_get_jump_dest(tabB, k, TRUE).returned
    /\ \E k \in DOMAIN tabB.mapping : tabB.mapping[k] # UNRESOLVED /\ tabB.mapping[k] > 0

Max(a, b) == IF a >= b THEN a ELSE b

\* C20: when get_jump_dest(i, z) returns, progress_maxpage is the greater of
\* its value before the call and the page of i, except for an OPEN still
\* unresolved there and asked about on a zero head cell, where it is the page
\* of the CLOSE of that OPEN; a call for an OPEN on a non-zero head cell asks
\* for no page beyond the page of i and never ends the run at the page limit.
C20_Lazy ==
    [][(last'.cur.valid /\ last'.cur.insn \in {"4", "5", "9"}) =>
          \E base \in {Max(progress_maxpage, ip \div PAGE_SIZE)} :
             /\ last'.cur.returned =>
                   IF /\ RefOpens(ip)
                      /\ Last(tape_after_rev) = 0
                      /\ ~ClosedWithin(ip, base)
                   THEN \E c \in (ip + 1)..WindowEnd :
                           /\ ClosedBy(ip, c)
                           /\ progress_maxpage' = Max(progress_maxpage, c \div PAGE_SIZE)
                   ELSE progress_maxpage' = base
             /\ (RefOpens(ip) /\ Last(tape_after_rev) # 0) =>
                   /\ status' # "exit2"
                   /\ progress_maxpage' = base
                   /\ last_req' <= ip \div PAGE_SIZE
                   /\ \A k \in 1..Len(scan_log') : scan_log'[k] <= base]_vars

\* An OPEN on a page beyond the frontier, on a zero head cell, made
\* get_jump_dest scan past the page of the OPEN up to the page of its CLOSE.
C20_Witness ==
    /\ status = "running"
    /\ last.cur.valid /\ last.cur.insn \in {"4", "9"}
    /\ last.cur.returned
    /\ last.cur.head = 0
    /\ RefOpens(last.cur.ip)
    /\ last.cur.frontier >= 0
    /\ last.cur.frontier < last.cur.ip \div PAGE_SIZE
    /\ progress_maxpage > last.cur.ip \div PAGE_SIZE
    /\ progress_maxpage = (last.cur.ret - 1) \div PAGE_SIZE

====
